---- MODULE Spec2Model ----
(***************************************************************************)
(* A model of the Molang interpreter of src/src/molang.rs: the bracket-    *)
(* aware splitters, the recursive string parser (parse_string_slice), the  *)
(* tree evaluator (Expression::eval) and the session (MolangParser) with   *)
(* its parse cache and variable environment.                               *)
(*                                                                         *)
(* Text is a sequence of one-character strings, indexed from 1; the Rust   *)
(* byte index i of the source is position i+1 here.  Only ASCII text is    *)
(* modelled.  An f64 is modelled as an exact sign-magnitude rational with  *)
(* the IEEE-754 special values (signed zero, signed infinity, NaN);        *)
(* rounding and overflow of f64 are outside the model.  A Rust panic is    *)
(* modelled as a distinguished outcome that propagates to the caller.      *)
(***************************************************************************)
EXTENDS Integers, Sequences, FiniteSets, TLC

(***************************************************************************)
(* Text helpers (str methods of the Rust standard library).                *)
(***************************************************************************)
DigitChars == {"0", "1", "2", "3", "4", "5", "6", "7", "8", "9"}

LowerChars ==
    {"a", "b", "c", "d", "e", "f", "g", "h", "i", "j", "k", "l", "m",
     "n", "o", "p", "q", "r", "s", "t", "u", "v", "w", "x", "y", "z"}

UpperChars ==
    {"A", "B", "C", "D", "E", "F", "G", "H", "I", "J", "K", "L", "M",
     "N", "O", "P", "Q", "R", "S", "T", "U", "V", "W", "X", "Y", "Z"}

\* The class \w of the regex crate, on ASCII.
WordChars == DigitChars \cup LowerChars \cup UpperChars \cup {"_"}

DigitValue(ch) ==
    CASE ch = "0" -> 0 [] ch = "1" -> 1 [] ch = "2" -> 2 [] ch = "3" -> 3
      [] ch = "4" -> 4 [] ch = "5" -> 5 [] ch = "6" -> 6 [] ch = "7" -> 7
      [] ch = "8" -> 8 [] ch = "9" -> 9

\* char::to_lowercase on ASCII.
ToLowerChar(ch) ==
    CASE ch = "A" -> "a" [] ch = "B" -> "b" [] ch = "C" -> "c" [] ch = "D" -> "d"
      [] ch = "E" -> "e" [] ch = "F" -> "f" [] ch = "G" -> "g" [] ch = "H" -> "h"
      [] ch = "I" -> "i" [] ch = "J" -> "j" [] ch = "K" -> "k" [] ch = "L" -> "l"
      [] ch = "M" -> "m" [] ch = "N" -> "n" [] ch = "O" -> "o" [] ch = "P" -> "p"
      [] ch = "Q" -> "q" [] ch = "R" -> "r" [] ch = "S" -> "s" [] ch = "T" -> "t"
      [] ch = "U" -> "u" [] ch = "V" -> "v" [] ch = "W" -> "w" [] ch = "X" -> "x"
      [] ch = "Y" -> "y" [] ch = "Z" -> "z" [] OTHER -> ch

\* &s[i..j] with 0-based byte indices, for 0 <= i <= j <= s.len().
Slice(s, i, j) == SubSeq(s, i + 1, j)

\* &s[i..]
SliceFrom(s, i) == SubSeq(s, i + 1, Len(s))

StartsWith(s, p) == Len(p) <= Len(s) /\ SubSeq(s, 1, Len(p)) = p

EndsWith(s, p) == Len(p) <= Len(s) /\ SubSeq(s, Len(s) - Len(p) + 1, Len(s)) = p

\* s.contains(c) for a non-empty pattern c.
Contains(s, c) ==
    \E i \in 0..(Len(s) - Len(c)) : SubSeq(s, i + 1, i + Len(c)) = c

\* s.find(c): the first byte index of c in s, or -1 for None.
Find(s, c) ==
    IF Contains(s, c)
    THEN CHOOSE i \in 0..(Len(s) - Len(c)) :
            /\ SubSeq(s, i + 1, i + Len(c)) = c
            /\ \A j \in 0..(i - 1) : SubSeq(s, j + 1, j + Len(c)) # c
    ELSE -1

\* s.replace(ch, "")
RemoveChar(s, ch) == SelectSeq(s, LAMBDA x : x # ch)

\* s.to_lowercase()
ToLowercase(s) == [i \in 1..Len(s) |-> ToLowerChar(s[i])]

(***************************************************************************)
(* f64 values: [k, neg, n, d] with k in {"fin", "inf", "nan"}; a finite    *)
(* value is (-1)^neg * n / d in lowest terms, so zero carries a sign.      *)
(***************************************************************************)
RECURSIVE Gcd(_, _)
Gcd(a, b) == IF b = 0 THEN a ELSE Gcd(b, a % b)

Fin(neg, n, d) ==
    LET g == Gcd(n, d)
    IN  [k |-> "fin", neg |-> neg, n |-> n \div g, d |-> d \div g]

NaN == [k |-> "nan", neg |-> FALSE, n |-> 0, d |-> 1]

Inf(neg) == [k |-> "inf", neg |-> neg, n |-> 0, d |-> 1]

Zero == Fin(FALSE, 0, 1)

One == Fin(FALSE, 1, 1)

\* std::f64::consts::PI, which no rational of the model's range equals: a
\* value of its own kind, on which no modelled operation is defined.
Pi == [k |-> "pi", neg |-> FALSE, n |-> 0, d |-> 1]

\* The values the arithmetic of the model is defined on.
Modelled(x) == x.k \in {"fin", "inf", "nan"}

IsNaN(x) == x.k = "nan"

IsInf(x) == x.k = "inf"

IsZeroValue(x) == x.k = "fin" /\ x.n = 0

\* The signed numerator of a finite value.
SNum(x) == IF x.neg THEN 0 - x.n ELSE x.n

\* The finite value num/d; a zero result takes the sign zeroNeg.
FromSigned(num, d, zeroNeg) ==
    IF num = 0 THEN Fin(zeroNeg, 0, 1)
    ELSE IF num < 0 THEN Fin(TRUE, 0 - num, d)
    ELSE Fin(FALSE, num, d)

\* -x
FNeg(x) == IF IsNaN(x) THEN NaN ELSE [x EXCEPT !.neg = ~x.neg]

\* x + y
FAdd(x, y) ==
    IF IsNaN(x) \/ IsNaN(y) THEN NaN
    ELSE IF IsInf(x) /\ IsInf(y) THEN (IF x.neg = y.neg THEN x ELSE NaN)
    ELSE IF IsInf(x) THEN x
    ELSE IF IsInf(y) THEN y
    ELSE FromSigned(SNum(x) * y.d + SNum(y) * x.d, x.d * y.d, x.neg /\ y.neg)

\* x - y
FSub(x, y) == FAdd(x, FNeg(y))

\* x * y
FMul(x, y) ==
    IF IsNaN(x) \/ IsNaN(y) THEN NaN
    ELSE IF IsInf(x) \/ IsInf(y)
    THEN (IF IsZeroValue(x) \/ IsZeroValue(y) THEN NaN ELSE Inf(x.neg # y.neg))
    ELSE Fin(x.neg # y.neg, x.n * y.n, x.d * y.d)

\* x / y
FDiv(x, y) ==
    IF IsNaN(x) \/ IsNaN(y) THEN NaN
    ELSE IF IsInf(x) THEN (IF IsInf(y) THEN NaN ELSE Inf(x.neg # y.neg))
    ELSE IF IsInf(y) THEN Fin(x.neg # y.neg, 0, 1)
    ELSE IF y.n = 0 THEN (IF x.n = 0 THEN NaN ELSE Inf(x.neg # y.neg))
    ELSE Fin(x.neg # y.neg, x.n * y.d, x.d * y.n)

\* x % y (fmod: the remainder takes the sign of x)
FRem(x, y) ==
    IF IsNaN(x) \/ IsNaN(y) \/ IsInf(x) \/ IsZeroValue(y) THEN NaN
    ELSE IF IsInf(y) THEN x
    ELSE Fin(x.neg, (x.n * y.d) % (y.n * x.d), x.d * y.d)

\* x == y
FEq(x, y) ==
    /\ ~IsNaN(x)
    /\ ~IsNaN(y)
    /\ \/ IsInf(x) /\ IsInf(y) /\ x.neg = y.neg
       \/ ~IsInf(x) /\ ~IsInf(y) /\ SNum(x) * y.d = SNum(y) * x.d

\* x < y
FLt(x, y) ==
    /\ ~IsNaN(x)
    /\ ~IsNaN(y)
    /\ IF IsInf(x) THEN x.neg /\ ~(IsInf(y) /\ y.neg)
       ELSE IF IsInf(y) THEN ~y.neg
       ELSE SNum(x) * y.d < SNum(y) * x.d

\* x <= y
FLe(x, y) == FLt(x, y) \/ FEq(x, y)

\* f64::abs
FAbs(x) == IF IsNaN(x) THEN NaN ELSE [x EXCEPT !.neg = FALSE]

\* f64::trunc
FTrunc(x) == IF x.k # "fin" THEN x ELSE Fin(x.neg, x.n \div x.d, 1)

\* f64::floor
FFloor(x) ==
    IF x.k # "fin" THEN x
    ELSE IF x.neg /\ x.n % x.d # 0 THEN Fin(TRUE, (x.n \div x.d) + 1, 1)
    ELSE Fin(x.neg, x.n \div x.d, 1)

\* f64::ceil
FCeil(x) ==
    IF x.k # "fin" THEN x
    ELSE IF ~x.neg /\ x.n % x.d # 0 THEN Fin(FALSE, (x.n \div x.d) + 1, 1)
    ELSE Fin(x.neg, x.n \div x.d, 1)

\* f64::round (half away from zero)
FRound(x) ==
    IF x.k # "fin" THEN x
    ELSE Fin(x.neg, (2 * x.n + x.d) \div (2 * x.d), 1)

I32Max == 2147483647

I32Min == (0 - I32Max) - 1

\* `x as i32`: truncation toward zero, saturating, NaN to 0.
as_i32(x) ==
    IF IsNaN(x) THEN 0
    ELSE IF IsInf(x) THEN (IF x.neg THEN I32Min ELSE I32Max)
    ELSE LET t == IF x.neg THEN 0 - (x.n \div x.d) ELSE x.n \div x.d
         IN  IF t > I32Max THEN I32Max ELSE IF t < I32Min THEN I32Min ELSE t

(***************************************************************************)
(* The regular expressions and the number conversion.                      *)
(***************************************************************************)
AllDigits(s) == Len(s) > 0 /\ \A i \in 1..Len(s) : s[i] \in DigitChars

\* The pattern without the unit marker: ^-?\d+(\.\d+)?$
is_string_number_plain(s) ==
    LET b   == IF StartsWith(s, <<"-">>) THEN SliceFrom(s, 1) ELSE s
        dot == Find(b, <<".">>)
    IN  IF dot = -1 THEN AllDigits(b)
        ELSE AllDigits(Slice(b, 0, dot)) /\ AllDigits(SliceFrom(b, dot + 1))

\* STRING_NUMBER_REGEX.is_match(s): ^-?\d+(\.\d+f?)?$
is_string_number(s) ==
    LET b   == IF StartsWith(s, <<"-">>) THEN SliceFrom(s, 1) ELSE s
        dot == Find(b, <<".">>)
    IN  IF dot = -1 THEN AllDigits(b)
        ELSE LET frac   == SliceFrom(b, dot + 1)
                 digits == IF EndsWith(frac, <<"f">>)
                           THEN Slice(frac, 0, Len(frac) - 1) ELSE frac
             IN  AllDigits(Slice(b, 0, dot)) /\ AllDigits(digits)

\* ALLOCATION_REGEX.find(s): ^(temp|variable|t|v)\.\w+= ; the byte index
\* after the matched "=", or -1 when the text does not match.
AllocationPrefixes == {<<"t", "e", "m", "p">>, <<"v", "a", "r", "i", "a", "b", "l", "e">>, <<"t">>, <<"v">>}

allocation_match_end(s) ==
    LET Matches(p, e) ==
            /\ StartsWith(s, p \o <<".">>)
            /\ e <= Len(s)
            /\ e - 1 > Len(p) + 1
            /\ \A i \in (Len(p) + 2)..(e - 1) : s[i] \in WordChars
            /\ s[e] = "="
        ends == {e \in 1..Len(s) : \E p \in AllocationPrefixes : Matches(p, e)}
    IN  IF ends = {} THEN -1 ELSE CHOOSE e \in ends : TRUE

\* The value of a text of digits.
RECURSIVE DigitsValue(_)
DigitsValue(s) ==
    IF s = <<>> THEN 0
    ELSE 10 * DigitsValue(SubSeq(s, 1, Len(s) - 1)) + DigitValue(s[Len(s)])

RECURSIVE Pow10(_)
Pow10(k) == IF k = 0 THEN 1 ELSE 10 * Pow10(k - 1)

\* str::parse::<f64> on the texts the model hands it: -?digits(.digits)?
\* converts; a text that holds anything else (the unit marker f) is an Err.
parse_f64(s) ==
    LET neg == StartsWith(s, <<"-">>)
        b   == IF neg THEN SliceFrom(s, 1) ELSE s
        dot == Find(b, <<".">>)
    IN  IF dot = -1
        THEN (IF AllDigits(b)
              THEN [ok |-> TRUE, value |-> Fin(neg, DigitsValue(b), 1)]
              ELSE [ok |-> FALSE, value |-> NaN])
        ELSE LET int  == Slice(b, 0, dot)
                 frac == SliceFrom(b, dot + 1)
             IN  IF AllDigits(int) /\ AllDigits(frac)
                 THEN [ok |-> TRUE,
                       value |-> Fin(neg,
                                     DigitsValue(int) * Pow10(Len(frac)) + DigitsValue(frac),
                                     Pow10(Len(frac)))]
                 ELSE [ok |-> FALSE, value |-> NaN]

(***************************************************************************)
(* The bracket-aware splitters.  A split is None, Some(left, right), or    *)
(* the panic of an out-of-range slice.                                     *)
(***************************************************************************)
None == [tag |-> "None"]

Some(l, r) == [tag |-> "Some", l |-> l, r |-> r]

SlicePanic == [tag |-> "Panic"]

OpenBrackets == {"(", "{"}

CloseBrackets == {")", "}"}

Brackets == OpenBrackets \cup CloseBrackets

\* `level` when the loop of split_string or split_string_multiple reaches
\* byte index i: the brackets opened less the brackets closed before i.
level_before(s, i) ==
    Cardinality({j \in 1..i : s[j] \in OpenBrackets})
      - Cardinality({j \in 1..i : s[j] \in CloseBrackets})

\* `level` when the loop of split_string_reverse reaches byte index i: the
\* brackets closed less the brackets opened after i.
level_after(s, i) ==
    Cardinality({j \in (i + 2)..Len(s) : s[j] \in CloseBrackets})
      - Cardinality({j \in (i + 2)..Len(s) : s[j] \in OpenBrackets})

\* The slice &s[i..i+c.len()] of lines 182 and 202 is out of range.
slice_out_of_range(s, c, i) == Len(c) # 1 /\ i + Len(c) > Len(s)

\* The byte indices at which the loop of split_string ends: a top-level
\* character that starts c, where the slice is c or is out of range.
split_string_stops(s, c) ==
    {i \in 0..(Len(s) - 1) :
        /\ s[i + 1] \notin Brackets
        /\ c[1] = s[i + 1]
        /\ level_before(s, i) = 0
        /\ \/ Len(c) = 1
           \/ slice_out_of_range(s, c, i)
           \/ Slice(s, i, i + Len(c)) = c}

\* The outcome at the stop i.
split_at(s, c, i) ==
    IF slice_out_of_range(s, c, i) THEN SlicePanic
    ELSE Some(Slice(s, 0, i), SliceFrom(s, i + Len(c)))

split_string(s, c) ==
    IF ~Contains(s, c) THEN None
    ELSE LET stops == split_string_stops(s, c)
         IN  IF stops = {} THEN None
             ELSE split_at(s, c, CHOOSE i \in stops : \A j \in stops : i <= j)

\* The characters after which a "-" is a sign (line 204).
OperatorChars == {"+", "*", "/", "<", ">", "=", "|", "&", "?", ":"}

\* The guard of line 204: it reads the character at i, the candidate itself.
minus_guard(s, c, i) == c # <<"-">> \/ i = 0 \/ s[i + 1] \in OperatorChars

\* The byte indices at which the loop of split_string_reverse ends.
split_string_reverse_stops(s, c) ==
    {i \in 0..(Len(s) - 1) :
        /\ s[i + 1] \notin Brackets
        /\ c[1] = s[i + 1]
        /\ level_after(s, i) = 0
        /\ \/ slice_out_of_range(s, c, i)
           \/ /\ Len(c) = 1 \/ Slice(s, i, i + Len(c)) = c
              /\ minus_guard(s, c, i)}

\* A split at the first top-level occurrence where the last one is meant.
split_string_reverse_first(s, c) == split_string(s, c)

split_string_reverse(s, c) ==
    IF ~Contains(s, c) THEN None
    ELSE LET stops == split_string_reverse_stops(s, c)
         IN  IF stops = {} THEN None
             ELSE split_at(s, c, CHOOSE i \in stops : \A j \in stops : i >= j)

\* The byte indices at which split_string_multiple splits, for a
\* one-character separator c, which is what both callers pass (";", ",").
\* The break of line 229 leaves the loop when no c is left, and then no
\* split is left either.
split_string_multiple_stops(s, c) ==
    {i \in 0..(Len(s) - 1) :
        s[i + 1] \notin Brackets /\ c[1] = s[i + 1] /\ level_before(s, i) = 0}

\* The k-th split, in text order; the end of the text after the last.
split_string_multiple_stop(s, c, k) ==
    LET stops == split_string_multiple_stops(s, c)
    IN  IF k > Cardinality(stops) THEN Len(s)
        ELSE CHOOSE i \in stops : Cardinality({j \in stops : j < i}) = k - 1

split_string_multiple(s, c) ==
    IF ~Contains(s, c) THEN <<s>>
    ELSE [k \in 1..(Cardinality(split_string_multiple_stops(s, c)) + 1) |->
            Slice(s,
                  IF k = 1 THEN 0 ELSE split_string_multiple_stop(s, c, k - 1) + 1,
                  split_string_multiple_stop(s, c, k))]

\* The level after the first k characters of the inside of s, from level 1.
bracket_level(s, k) ==
    1 + Cardinality({j \in 2..(k + 1) : s[j] \in OpenBrackets})
      - Cardinality({j \in 2..(k + 1) : s[j] \in CloseBrackets})

can_trim_brackets(s) ==
    IF \/ StartsWith(s, <<"(">>) /\ EndsWith(s, <<")">>)
       \/ StartsWith(s, <<"{">>) /\ EndsWith(s, <<"}">>)
    THEN \A k \in 1..(Len(s) - 2) : bracket_level(s, k) # 0
    ELSE FALSE

RECURSIVE trim_brackets(_)
trim_brackets(input) ==
    IF can_trim_brackets(input)
    THEN trim_brackets(Slice(input, 1, Len(input) - 1))
    ELSE input

(***************************************************************************)
(* The expression tree (enum Expression).  PanicNode stands for a parse    *)
(* that panicked; it is never part of a tree that is evaluated.            *)
(***************************************************************************)
Number(value) == [type |-> "Number", value |-> value]

Operation1(op, a) == [type |-> "Operation1", op |-> op, a |-> a]

Operation2(op, a, b) == [type |-> "Operation2", op |-> op, a |-> a, b |-> b]

Operation3(op, a, b, c) == [type |-> "Operation3", op |-> op, a |-> a, b |-> b, c |-> c]

Variable(name) == [type |-> "Variable", name |-> name]

Allocation(name, b) == [type |-> "Allocation", name |-> name, b |-> b]

ReturnStatement(a) == [type |-> "ReturnStatement", a |-> a]

Loop(count, scope) == [type |-> "Loop", count |-> count, scope |-> scope]

Scope(lines) == [type |-> "Scope", lines |-> lines]

PanicNode == [type |-> "Panic"]

IsPanic(e) == e.type = "Panic"

\* A node built from children, or the panic of the first child that panicked.
Build1(a, node) == IF IsPanic(a) THEN PanicNode ELSE node

Build2(a, b, node) == IF IsPanic(a) \/ IsPanic(b) THEN PanicNode ELSE node

Build3(a, b, c, node) ==
    IF IsPanic(a) \/ IsPanic(b) \/ IsPanic(c) THEN PanicNode ELSE node

(***************************************************************************)
(* The parser.                                                             *)
(***************************************************************************)
\* An identity where the alias is to be expanded.
to_variable_name_unexpanded(input) ==
    IF Len(input) < 2 THEN [panic |-> TRUE, name |-> <<>>]
    ELSE [panic |-> FALSE, name |-> input]

\* &input[1..2] panics on a text shorter than two bytes.
to_variable_name(input) ==
    IF Len(input) < 2 THEN [panic |-> TRUE, name |-> <<>>]
    ELSE IF input[2] = "."
    THEN CASE input[1] = "q" -> [panic |-> FALSE, name |-> <<"q", "u", "e", "r", "y">> \o SliceFrom(input, 1)]
           [] input[1] = "v" -> [panic |-> FALSE, name |-> <<"v", "a", "r", "i", "a", "b", "l", "e">> \o SliceFrom(input, 1)]
           [] input[1] = "t" -> [panic |-> FALSE, name |-> <<"t", "e", "m", "p">> \o SliceFrom(input, 1)]
           [] input[1] = "c" -> [panic |-> FALSE, name |-> <<"c", "o", "n", "t", "e", "x", "t">> \o SliceFrom(input, 1)]
           [] OTHER -> [panic |-> FALSE, name |-> input]
    ELSE [panic |-> FALSE, name |-> input]

RECURSIVE parse_string_slice(_)

create_operation_1(op_type, s1) ==
    LET a == parse_string_slice(s1)
    IN  Build1(a, Operation1(op_type, a))

create_operation_2(op_type, s1, s2) ==
    LET a == parse_string_slice(s1)
        b == parse_string_slice(s2)
    IN  Build2(a, b, Operation2(op_type, a, b))

create_operation_3(op_type, s1, s2, s3) ==
    LET a == parse_string_slice(s1)
        b == parse_string_slice(s2)
        c == parse_string_slice(s3)
    IN  Build3(a, b, c, Operation3(op_type, a, b, c))

\* A statement that never counts as a return.
is_return_never(exp) == FALSE

\* matches!(exp, Expression::ReturnStatement(_))
is_return(exp) == exp.type = "ReturnStatement"

\* The statement loop of lines 297-304, from statement i on.
RECURSIVE parse_lines(_, _, _)
parse_lines(lines, i, expressions) ==
    IF i > Len(lines) THEN Scope(expressions)
    ELSE LET exp == parse_string_slice(lines[i])
         IN  IF IsPanic(exp) THEN PanicNode
             ELSE IF is_return(exp) THEN Scope(Append(expressions, exp))
             ELSE parse_lines(lines, i + 1, Append(expressions, exp))

\* The default of line 509.
parse_variable(s) ==
    LET r == to_variable_name(s)
    IN  IF r.panic THEN PanicNode ELSE Variable(r.name)

\* The names of lines 456-481 with the operation each builds.
MathFunctions ==
    { [name |-> <<"a", "b", "s">>, op |-> "Abs", arity |-> 1],
      [name |-> <<"s", "i", "n">>, op |-> "Sin", arity |-> 1],
      [name |-> <<"c", "o", "s">>, op |-> "Cos", arity |-> 1],
      [name |-> <<"e", "x", "p">>, op |-> "Exp", arity |-> 1],
      [name |-> <<"l", "n">>, op |-> "Ln", arity |-> 1],
      [name |-> <<"p", "o", "w">>, op |-> "Pow", arity |-> 2],
      [name |-> <<"s", "q", "r", "t">>, op |-> "Sqrt", arity |-> 1],
      [name |-> <<"r", "a", "n", "d", "o", "m">>, op |-> "Random", arity |-> 2],
      [name |-> <<"c", "e", "i", "l">>, op |-> "Ceil", arity |-> 1],
      [name |-> <<"r", "o", "u", "n", "d">>, op |-> "Round", arity |-> 1],
      [name |-> <<"t", "r", "u", "n", "c">>, op |-> "Trunc", arity |-> 1],
      [name |-> <<"f", "l", "o", "o", "r">>, op |-> "Floor", arity |-> 1],
      [name |-> <<"m", "o", "d">>, op |-> "Modulo", arity |-> 2],
      [name |-> <<"m", "i", "n">>, op |-> "Min", arity |-> 2],
      [name |-> <<"m", "a", "x">>, op |-> "Max", arity |-> 2],
      [name |-> <<"c", "l", "a", "m", "p">>, op |-> "Clamp", arity |-> 3],
      [name |-> <<"l", "e", "r", "p">>, op |-> "Lerp", arity |-> 3],
      [name |-> <<"l", "e", "r", "p", "r", "o", "t", "a", "t", "e">>, op |-> "Lerprotate", arity |-> 3],
      [name |-> <<"a", "s", "i", "n">>, op |-> "Asin", arity |-> 1],
      [name |-> <<"a", "c", "o", "s">>, op |-> "Acos", arity |-> 1],
      [name |-> <<"a", "t", "a", "n">>, op |-> "Atan", arity |-> 1],
      [name |-> <<"a", "t", "a", "n", "2">>, op |-> "Atan2", arity |-> 2],
      [name |-> <<"d", "i", "e", "_", "r", "o", "l", "l">>, op |-> "Dieroll", arity |-> 3],
      [name |-> <<"d", "i", "e", "_", "r", "o", "l", "l", "_", "i", "n", "t", "e", "g", "e", "r">>, op |-> "DierollInt", arity |-> 3],
      [name |-> <<"h", "e", "r", "m", "i", "t", "e", "_", "b", "l", "e", "n", "d">>, op |-> "HermiteBlend", arity |-> 1],
      [name |-> <<"r", "a", "n", "d", "o", "m", "_", "i", "n", "t", "e", "g", "e", "r">>, op |-> "RandomInt", arity |-> 2] }

\* The argument split of lines 439-453: at most three parameters.
math_params(inner) ==
    LET first == split_string(inner, <<",">>)
    IN  IF first.tag = "Some"
        THEN LET second == split_string(first.r, <<",">>)
             IN  IF second.tag = "Some"
                 THEN <<first.l, second.l, second.r>>
                 ELSE <<first.l, first.r, <<>> >>
        ELSE <<inner, <<>>, <<>> >>

\* The math branch of lines 426-484, for a text that starts with "math.".
parse_math(s) ==
    IF s = <<"m", "a", "t", "h", ".", "p", "i">> THEN Number(Pi)
    ELSE LET found     == Find(s, <<"(">>)
             arg_begin == IF found = -1 THEN 1 ELSE found
         IN  IF arg_begin < 5 \/ arg_begin + 1 > Len(s) - 1 THEN PanicNode
             ELSE LET operator == Slice(s, 5, arg_begin)
                      inner    == Slice(s, arg_begin + 1, Len(s) - 1)
                      params   == math_params(inner)
                      known    == {f \in MathFunctions : f.name = operator}
                  IN  IF known = {} THEN Number(Zero)
                      ELSE LET f == CHOOSE f \in known : TRUE
                           IN  CASE f.arity = 1 -> create_operation_1(f.op, params[1])
                                 [] f.arity = 2 -> create_operation_2(f.op, params[1], params[2])
                                 [] f.arity = 3 ->
                                      create_operation_3(f.op, params[1], params[2], params[3])

\* The tail of lines 422-509: negation, math call, loop, variable.
parse_tail(s) ==
    IF StartsWith(s, <<"!">>) THEN create_operation_1("Negate", SliceFrom(s, 1))
    ELSE IF StartsWith(s, <<"m", "a", "t", "h", ".">>) THEN parse_math(s)
    ELSE IF StartsWith(s, <<"l", "o", "o", "p", "(">>)
    THEN IF Len(s) - 1 < 5 THEN PanicNode
         ELSE LET inner  == Slice(s, 5, Len(s) - 1)
                  params == split_string_multiple(inner, <<",">>)
              IN  IF Len(params) >= 2
                  THEN LET count == parse_string_slice(params[1])
                           scope == parse_string_slice(params[2])
                       IN  Build2(count, scope, Loop(count, scope))
                  ELSE parse_variable(s)
    ELSE parse_variable(s)

\* The two-part operators of lines 339-421 in the order they are tried:
\* the separator, the operation, the splitter, and whether the attempt is
\* made only when the text holds an "=".
OperatorLadder ==
    << [sep |-> <<"?", "?">>, op |-> "NullCoalescing", reverse |-> FALSE, gated |-> FALSE],
       [sep |-> <<"?">>,  op |-> "Ternary",        reverse |-> FALSE, gated |-> FALSE],
       [sep |-> <<"&", "&">>, op |-> "And",            reverse |-> FALSE, gated |-> FALSE],
       [sep |-> <<"|", "|">>, op |-> "Or",             reverse |-> FALSE, gated |-> FALSE],
       [sep |-> <<"=", "=">>, op |-> "Equal",          reverse |-> FALSE, gated |-> TRUE],
       [sep |-> <<"!", "=">>, op |-> "Unequal",        reverse |-> FALSE, gated |-> TRUE],
       [sep |-> <<"<", "=">>, op |-> "SmallerEqual",   reverse |-> FALSE, gated |-> TRUE],
       [sep |-> <<"<">>,  op |-> "Smaller",        reverse |-> FALSE, gated |-> FALSE],
       [sep |-> <<">", "=">>, op |-> "LargerEqual",    reverse |-> FALSE, gated |-> TRUE],
       [sep |-> <<">">>,  op |-> "Larger",         reverse |-> FALSE, gated |-> FALSE],
       [sep |-> <<"+">>,  op |-> "Add",            reverse |-> TRUE,  gated |-> FALSE],
       [sep |-> <<"-">>,  op |-> "Subtract",       reverse |-> TRUE,  gated |-> FALSE],
       [sep |-> <<"*">>,  op |-> "Multiply",       reverse |-> FALSE, gated |-> FALSE],
       [sep |-> <<"/">>,  op |-> "Divide",         reverse |-> TRUE,  gated |-> FALSE] >>

\* The node of a successful split for ladder entry e.
operator_node(e, result) ==
    IF e.op = "Ternary"
    THEN LET result2 == split_string(result.r, <<":">>)
         IN  IF result2.tag = "Some"
             THEN create_operation_3("Ternary", result.l, result2.l, result2.r)
             ELSE create_operation_2("Ternary", result.l, result.r)
    ELSE IF e.op = "Subtract" /\ Len(result.l) = 0
    THEN create_operation_1("Invert", result.r)
    ELSE create_operation_2(e.op, result.l, result.r)

\* Lines 339-421 from ladder entry k on, then the tail.
RECURSIVE parse_operators(_, _)
parse_operators(s, k) ==
    IF k > Len(OperatorLadder) THEN parse_tail(s)
    ELSE LET e == OperatorLadder[k]
         IN  IF e.gated /\ ~Contains(s, <<"=">>) THEN parse_operators(s, k + 1)
             ELSE LET result == IF e.reverse THEN split_string_reverse(s, e.sep)
                                ELSE split_string(s, e.sep)
                  IN  CASE result.tag = "Panic" -> PanicNode
                        [] result.tag = "Some" -> operator_node(e, result)
                        [] result.tag = "None" -> parse_operators(s, k + 1)

\* The allocation of lines 323-337, then the operators.
parse_allocation(s) ==
    LET end == allocation_match_end(s)
    IN  IF Contains(s, <<"=">>) /\ Len(s) > 4 /\ end # -1
        THEN IF end + 1 > Len(s) THEN PanicNode
             ELSE IF s[end + 1] # "="
             THEN LET name  == to_variable_name(Slice(s, 0, end - 1))
                      value == parse_string_slice(SliceFrom(s, end))
                  IN  IF name.panic THEN PanicNode
                      ELSE Build1(value, Allocation(name.name, value))
             ELSE parse_operators(s, 1)
        ELSE parse_operators(s, 1)

parse_string_slice(input) ==
    IF Len(input) = 0 THEN Number(Zero)
    ELSE LET trimmed_input == IF EndsWith(input, <<";">>)
                              THEN Slice(input, 0, Len(input) - 1) ELSE input
             s     == trim_brackets(trimmed_input)
         IN  IF is_string_number(s)
             THEN Number(parse_f64(RemoveChar(s, "f")).value)
             ELSE LET lines == split_string_multiple(s, <<";">>)
                  IN  IF Len(lines) > 1 THEN parse_lines(lines, 1, <<>>)
                      ELSE IF StartsWith(s, <<"r", "e", "t", "u", "r", "n">>)
                      THEN LET a == parse_string_slice(SliceFrom(s, 6))
                           IN  Build1(a, ReturnStatement(a))
                      ELSE IF s = <<"t", "r", "u", "e">> THEN Number(One)
                      ELSE IF s = <<"f", "a", "l", "s", "e">> THEN Number(Zero)
                      ELSE parse_allocation(s)

\* Line 634: string.replace(' ', "").to_lowercase()
normalize(string) == ToLowercase(RemoveChar(string, " "))

create_expression_tree(string) == parse_string_slice(normalize(string))

(***************************************************************************)
(* The evaluator (Expression::eval).  An evaluation yields its value, the  *)
(* variables as it leaves them, and whether it panicked.                   *)
(***************************************************************************)
EmptyMap == [key \in {} |-> Zero]

\* HashMap::insert
hashmap_insert(variables, a, value) ==
    [key \in DOMAIN variables \cup {a} |-> IF key = a THEN value ELSE variables[key]]

Ret(value, variables) == [val |-> value, vars |-> variables, panic |-> FALSE]

EvalPanic(variables) == [val |-> NaN, vars |-> variables, panic |-> TRUE]

Bool(b) == IF b THEN One ELSE Zero

\* The match of lines 524-544.  The functions of libm (sin, cos, exp, ln,
\* sqrt, asin, acos, atan) have no arm: no modelled script evaluates them.
operation1_value(o_type, a) ==
    CASE o_type = "Negate" /\ Modelled(a) -> Bool(FEq(a, Zero))
      [] o_type = "Invert" /\ Modelled(a) -> FNeg(a)
      [] o_type = "Abs" /\ Modelled(a) -> FAbs(a)
      [] o_type = "Ceil" /\ Modelled(a) -> FCeil(a)
      [] o_type = "Round" /\ Modelled(a) -> FRound(a)
      [] o_type = "Trunc" /\ Modelled(a) -> FTrunc(a)
      [] o_type = "Floor" /\ Modelled(a) -> FFloor(a)
      [] o_type = "HermiteBlend" /\ Modelled(a) ->
           FSub(FMul(Fin(FALSE, 3, 1), FMul(a, a)),
                FMul(Fin(FALSE, 2, 1), FMul(FMul(a, a), a)))

\* The match of lines 549-575 but for Equal and Unequal, which evaluate
\* again (compare_values).  Pow, Random, RandomInt, Atan2, Min and Max have
\* no arm: no modelled script evaluates them.
operation2_value(o_type, a, b) ==
    CASE o_type = "Add" /\ Modelled(a) /\ Modelled(b) -> FAdd(a, b)
      [] o_type = "Subtract" /\ Modelled(a) /\ Modelled(b) -> FSub(a, b)
      [] o_type = "Multiply" /\ Modelled(a) /\ Modelled(b) -> FMul(a, b)
      [] o_type = "Divide" /\ Modelled(a) /\ Modelled(b) -> FDiv(a, b)
      [] o_type = "And" /\ Modelled(a) /\ Modelled(b) ->
           Bool(~FEq(a, Zero) /\ ~FEq(b, Zero))
      [] o_type = "Or" /\ Modelled(a) /\ Modelled(b) ->
           Bool(~FEq(a, Zero) \/ ~FEq(b, Zero))
      [] o_type = "Smaller" /\ Modelled(a) /\ Modelled(b) -> Bool(FLt(a, b))
      [] o_type = "SmallerEqual" /\ Modelled(a) /\ Modelled(b) -> Bool(FLe(a, b))
      [] o_type = "Larger" /\ Modelled(a) /\ Modelled(b) -> Bool(FLt(b, a))
      [] o_type = "LargerEqual" /\ Modelled(a) /\ Modelled(b) -> Bool(FLe(b, a))
      [] o_type = "NullCoalescing" -> Zero
      [] o_type = "Modulo" /\ Modelled(a) /\ Modelled(b) -> FRem(a, b)
      [] o_type = "Ternary" /\ Modelled(a) -> IF ~FEq(a, Zero) THEN b ELSE Zero

\* f64::clamp panics unless min <= max; lines 581-588.  Lerprotate and the
\* die rolls have no arm: no modelled script evaluates them.
operation3_panics(o_type, a, b, c) == o_type = "Clamp" /\ ~FLe(b, c)

operation3_value(o_type, a, b, c) ==
    CASE o_type = "Clamp" /\ Modelled(a) /\ Modelled(b) /\ Modelled(c) ->
           LET x == IF FLt(a, b) THEN b ELSE a
           IN  IF FLt(c, x) THEN c ELSE x
      [] o_type = "Lerp" /\ Modelled(a) /\ Modelled(b) /\ Modelled(c) ->
           FAdd(a, FMul(FSub(b, a), c))
      [] o_type = "Ternary" /\ Modelled(a) -> IF ~FEq(a, Zero) THEN b ELSE c

\* A read that creates the key it misses.
eval_variable_creating(a, variables) ==
    IF a \in DOMAIN variables THEN Ret(variables[a], variables)
    ELSE Ret(Zero, hashmap_insert(variables, a, Zero))

\* Lines 591-601: variables.get(a), 0.0 for no entry.
eval_variable(a, variables) ==
    IF a \in DOMAIN variables THEN Ret(variables[a], variables)
    ELSE Ret(Zero, variables)

\* One iteration more than the count.
loop_iterations_inclusive(count_value) == as_i32(count_value) + 1

\* Line 614: count.eval(variables) as i32
loop_iterations(count_value) == as_i32(count_value)

RECURSIVE eval(_, _)

\* compare_values (lines 241-247): evaluates both operands.
compare_values(a, b, variables) ==
    LET result_a == eval(a, variables)
        result_b == eval(b, result_a.vars)
    IN  IF result_a.panic THEN [eq |-> FALSE, vars |-> result_a.vars, panic |-> TRUE]
        ELSE IF result_b.panic THEN [eq |-> FALSE, vars |-> result_b.vars, panic |-> TRUE]
        ELSE [eq |-> FEq(result_a.val, result_b.val), vars |-> result_b.vars,
              panic |-> FALSE]

\* The loop of lines 616-618 with `remaining` iterations to go.
RECURSIVE loop_run(_, _, _)
loop_run(scope, remaining, r) ==
    IF remaining <= 0 \/ r.panic THEN r
    ELSE loop_run(scope, remaining - 1, eval(scope, r.vars))

\* The loop of lines 623-625 from line i on.
RECURSIVE scope_run(_, _, _)
scope_run(lines, i, r) ==
    IF i > Len(lines) \/ r.panic THEN r
    ELSE scope_run(lines, i + 1, eval(lines[i], r.vars))

eval(self, variables) ==
    CASE self.type = "Number" -> Ret(self.value, variables)
      [] self.type = "Operation1" ->
           LET a == eval(self.a, variables)
           IN  IF a.panic THEN a
               ELSE Ret(operation1_value(self.op, a.val), a.vars)
      [] self.type = "Operation2" ->
           LET a == eval(self.a, variables)
               b == eval(self.b, a.vars)
           IN  IF a.panic THEN a
               ELSE IF b.panic THEN b
               ELSE IF self.op \in {"Equal", "Unequal"}
               THEN LET cmp == compare_values(self.a, self.b, b.vars)
                    IN  IF cmp.panic THEN EvalPanic(cmp.vars)
                        ELSE Ret(Bool(cmp.eq = (self.op = "Equal")), cmp.vars)
               ELSE Ret(operation2_value(self.op, a.val, b.val), b.vars)
      [] self.type = "Operation3" ->
           LET a == eval(self.a, variables)
               b == eval(self.b, a.vars)
               c == eval(self.c, b.vars)
           IN  IF a.panic THEN a
               ELSE IF b.panic THEN b
               ELSE IF c.panic THEN c
               ELSE IF operation3_panics(self.op, a.val, b.val, c.val)
               THEN EvalPanic(c.vars)
               ELSE Ret(operation3_value(self.op, a.val, b.val, c.val), c.vars)
      [] self.type = "Variable" -> eval_variable(self.name, variables)
      [] self.type = "Allocation" ->
           LET value == eval(self.b, variables)
           IN  IF value.panic THEN value
               ELSE Ret(Zero, hashmap_insert(value.vars, self.name, value.val))
      [] self.type = "ReturnStatement" -> eval(self.a, variables)
      [] self.type = "Loop" ->
           LET count == eval(self.count, variables)
           IN  IF count.panic THEN count
               ELSE loop_run(self.scope, loop_iterations(count.val),
                             Ret(Zero, count.vars))
      [] self.type = "Scope" -> scope_run(self.lines, 1, Ret(Zero, variables))

(***************************************************************************)
(* The session (struct MolangParser).  A call of parse yields the cache    *)
(* and the variables as it leaves them, and its result or its panic.       *)
(***************************************************************************)
Outcome(cache, r) ==
    [cache |-> cache, variables |-> r.vars, result |-> r.val, panic |-> r.panic]

\* An outcome with the branch of parse that produced it.
Via(path, out) ==
    [cache |-> out.cache, variables |-> out.variables, result |-> out.result,
     panic |-> out.panic, path |-> path]

\* script.eval(&mut self.variables), or the panic of the parse before it.
eval_script(self, script) ==
    IF IsPanic(script) THEN Outcome(self.cache, EvalPanic(self.variables))
    ELSE Outcome(self.cache, eval(script, self.variables))

\* Line 681: self.cache.insert(input.clone(), script), reached when the
\* evaluation returned.
cache_insert(out, input, script) ==
    IF out.panic THEN out
    ELSE [out EXCEPT !.cache = hashmap_insert(out.cache, input, script)]

\* Lines 677-682 for the tree `script` of the input.
evaluate_and_store(self, input, script) ==
    cache_insert(eval_script(self, script), input, script)

\* The miss of lines 676-683: the tree is stored after it was evaluated.
parse_cache_miss(self, input) ==
    evaluate_and_store(self, input, create_expression_tree(input))

\* A hit that evaluates the stored tree against no variables.
parse_cache_hit_detached(self, input) ==
    eval_script([self EXCEPT !.variables = EmptyMap], self.cache[input])

\* The hit of lines 673-675: the stored tree against the live variables.
parse_cache_hit(self, input) == eval_script(self, self.cache[input])

\* Lines 664-668: no cache.
parse_uncached(self, input) == eval_script(self, create_expression_tree(input))

\* input.parse().unwrap()
unwrap_number(self, number) ==
    IF number.ok THEN Outcome(self.cache, Ret(number.value, self.variables))
    ELSE Outcome(self.cache, EvalPanic(self.variables))

\* Lines 660-662: the fast path of a text the pattern matched.
parse_fast_path(self, input) == unwrap_number(self, parse_f64(input))

\* MolangParser::parse
MolangParser_parse(self, input) ==
    IF Len(input) = 0 THEN Via("empty", Outcome(self.cache, Ret(Zero, self.variables)))
    ELSE IF Len(input) < 9 /\ is_string_number(input)
    THEN Via("fast", parse_fast_path(self, input))
    ELSE IF self.enable_cache = FALSE THEN Via("uncached", parse_uncached(self, input))
    ELSE IF input \in DOMAIN self.cache THEN Via("hit", parse_cache_hit(self, input))
    ELSE Via("miss", parse_cache_miss(self, input))

\* MolangParser::new
MolangParser_new == [cache |-> EmptyMap, variables |-> EmptyMap, enable_cache |-> TRUE]

(***************************************************************************)
(* The state: one session (cache, variables, enable_cache), the last call  *)
(* made on it (input, result, status, and path: the branch of parse it     *)
(* took), the number of calls, and a second                                *)
(* session, `uncached`, that the host keeps with enable_cache = false and  *)
(* hands the same calls.  `drawn` holds the texts a specification draws    *)
(* when it starts, from which its scripts are put together.                *)
(***************************************************************************)
VARIABLES cache, variables, enable_cache, input, result, status, path, calls, uncached, drawn

vars == <<cache, variables, enable_cache, input, result, status, path, calls, uncached, drawn>>

\* The calls of one behaviour.
MaxCalls == 3

Session == [cache |-> cache, variables |-> variables, enable_cache |-> enable_cache]

UncachedSession ==
    [cache |-> EmptyMap, variables |-> uncached.variables, enable_cache |-> FALSE]

NewSession ==
    /\ cache = MolangParser_new.cache
    /\ variables = MolangParser_new.variables
    /\ enable_cache = MolangParser_new.enable_cache
    /\ input = <<>>
    /\ result = Zero
    /\ status = "new"
    /\ path = "none"
    /\ calls = 0
    /\ uncached = [variables |-> EmptyMap, result |-> Zero, status |-> "new"]

\* The state after a call that ended as `out` on the session and as `ref`
\* on the uncached one.  A panic ends the process: the call has no result.
Returned(out, ref) ==
    /\ cache' = out.cache
    /\ variables' = out.variables
    /\ result' = IF out.panic THEN result ELSE out.result
    /\ status' = IF out.panic THEN "panicked" ELSE "returned"
    /\ path' = out.path
    /\ uncached' = [variables |-> ref.variables,
                    result |-> IF ref.panic THEN uncached.result ELSE ref.result,
                    status |-> IF ref.panic THEN "panicked" ELSE "returned"]

\* parser.parse(raw) on both sessions; no call follows a panic.
Call(raw) ==
    /\ status # "panicked"
    /\ calls < MaxCalls
    /\ Returned(MolangParser_parse(Session, raw), MolangParser_parse(UncachedSession, raw))
    /\ input' = raw
    /\ calls' = calls + 1
    /\ UNCHANGED <<enable_cache, drawn>>

\* parser.enable_cache = b (the field is public).
SetEnableCache(b) ==
    /\ status # "panicked"
    /\ enable_cache # b
    /\ enable_cache' = b
    /\ UNCHANGED <<cache, variables, input, result, status, path, calls, uncached, drawn>>

(***************************************************************************)
(* Spec: a host that calls a session with scripts of a pool, well-formed   *)
(* and malformed, in any order.                                            *)
(***************************************************************************)
CounterScript == <<"t", ".", "x", " ", "=", " ", "t", ".", "x", " ", "+", " ", "1">>

CounterScriptUpper == <<"T", ".", "X", " ", "=", " ", "T", ".", "X", " ", "+", " ", "1">>

ReadScript == <<"t", "e", "m", "p", ".", "x">>

DerivedScript == <<"v", ".", "y", " ", "=", " ", "t", ".", "x", " ", "*", " ", "2", ";", " ", "r", "e", "t", "u", "r", "n", " ", "v", ".", "y", ";">>

UnassignedScript == <<"q", ".", "z">>

SumScript == <<"1", "+", "1">>

SumScriptSpaced == <<"1", " ", "+", " ", "1">>

NumberScript == <<"7">>

NumberScriptSpaced == <<" ", "7">>

UnitScript == <<"0", ".", "5", "f">>

UnitScriptSpaced == <<"0", ".", "5", " ", "F">>

BrokenScript == <<")", "2", "2", " ", "+", " ", "5", " ", "*", " ", "(", "v", ".", "s", "o", "m", "e", "t", "h", "i", "n", "g">>

\* The malformed inputs of the pool.
MalformedScripts ==
    { BrokenScript, <<"a">>, <<"(", ")">>, <<"m", "a", "t", "h", ".">>, <<"l", "o", "o", "p", "(">>, <<"t", "e", "m", "p", ".", "x", "=">>,
      <<"t", ".", "p", " ", "=", " ", "1", ";", " ", "m", "a", "t", "h", ".", "c", "l", "a", "m", "p", "(", "1", ",", " ", "2", ")">> }

Scripts ==
    { CounterScript, CounterScriptUpper, ReadScript, DerivedScript, UnassignedScript,
      SumScript, SumScriptSpaced, NumberScript, NumberScriptSpaced,
      UnitScript, UnitScriptSpaced } \cup MalformedScripts

Init == NewSession /\ drawn = <<>>

Next ==
    \/ \E raw \in Scripts : Call(raw)
    \/ \E b \in BOOLEAN : SetEnableCache(b)

Spec == Init /\ [][Next]_vars

(***************************************************************************)
(* Helpers of the properties.                                              *)
(***************************************************************************)
\* The variable keys a tree can assign.
RECURSIVE AllocationNames(_)
AllocationNames(e) ==
    CASE e.type \in {"Number", "Variable", "Panic"} -> {}
      [] e.type \in {"Operation1", "ReturnStatement"} -> AllocationNames(e.a)
      [] e.type = "Operation2" -> AllocationNames(e.a) \cup AllocationNames(e.b)
      [] e.type = "Operation3" ->
           AllocationNames(e.a) \cup AllocationNames(e.b) \cup AllocationNames(e.c)
      [] e.type = "Allocation" -> {e.name} \cup AllocationNames(e.b)
      [] e.type = "Loop" -> AllocationNames(e.count) \cup AllocationNames(e.scope)
      [] e.type = "Scope" ->
           UNION {AllocationNames(e.lines[i]) : i \in 1..Len(e.lines)}

\* The step is a call of parse.
IsCall == calls' = calls + 1

TempX == <<"t", "e", "m", "p", ".", "x">>

(***************************************************************************)
(* Properties of Spec.                                                     *)
(***************************************************************************)
\* C1: MolangParser::parse returns a number for every raw input, malformed
\* ones included: no call panics.
C1_ParseNeverPanics == status # "panicked"

\* In a call step, the keys the script of the call can assign.
AssignedByCall == AllocationNames(create_expression_tree(input'))

\* The keys the step created or gave another value.
Changed(key) == key \notin DOMAIN variables \/ variables'[key] # variables[key]

\* A read of `tree`, a variable reference, leaves a missing key missing and
\* yields 0.0.
ReadsDefault(tree) ==
    (tree.type = "Variable" /\ tree.name \notin DOMAIN variables /\ path' # "fast")
        => (result' = Zero /\ tree.name \notin DOMAIN variables')

\* C6: over the calls of a session the variables only grow: no key is
\* removed; a key is created or changes its value only in a call whose
\* script holds an assignment to it; and a read of a key that was never
\* assigned yields 0.0 and does not create the key.
C6_VariablesOnlyGrow ==
    [][ LET tree == create_expression_tree(input')
        IN  /\ DOMAIN variables \subseteq DOMAIN variables'
            /\ (\E key \in DOMAIN variables' : Changed(key)) => IsCall
            /\ \A key \in DOMAIN variables' :
                  Changed(key) => key \in AllocationNames(tree)
            /\ (IsCall /\ status' = "returned") => ReadsDefault(tree) ]_vars

\* C6 witness: a read of a key never assigned, in a call after two calls
\* that assigned temp.x, which kept its value.
C6_Witness ==
    /\ calls = 3
    /\ input = UnassignedScript
    /\ status = "returned"
    /\ result = Zero
    /\ DOMAIN variables = {TempX}
    /\ variables[TempX] = Fin(FALSE, 2, 1)

\* C7: the cache is transparent.  After every call the session agrees with
\* the session that has enable_cache = false and got the same calls: the
\* same result or panic, the same variables; and a call that repeats the
\* raw input of the call before it, with a script that assigns nothing,
\* returns the same result.
C7_CacheTransparent ==
    [][ /\ status' = uncached'.status
        /\ result' = uncached'.result
        /\ variables' = uncached'.variables
        /\ (IsCall /\ input' = input /\ status' = "returned" /\ AssignedByCall = {})
              => result' = result ]_vars

\* C7 witness: a cache hit of the counter script, whose second evaluation
\* advanced temp.x on both sessions.
C7_Witness ==
    /\ path = "hit"
    /\ input = CounterScript
    /\ variables[TempX] = Fin(FALSE, 2, 1)
    /\ uncached.variables[TempX] = Fin(FALSE, 2, 1)

\* What a call of parse(other) does from the state before the step is what
\* the step did.
SameOutcome(out) ==
    /\ out.panic = (status' = "panicked")
    /\ out.variables = variables'
    /\ ~out.panic => out.result = result'

\* C8: two raw inputs that normalize to the same text produce the same
\* outcome against the same variables, whether or not either takes the
\* numeric fast path.
C8_NormalizedInputsAgree ==
    [][ IsCall =>
          \A other \in Scripts :
              normalize(other) = normalize(input')
                  => SameOutcome(MolangParser_parse(Session, other)) ]_vars

(***************************************************************************)
(* SpecArith: the host draws three numeric literals and evaluates one      *)
(* arithmetic script put together from them on a new session.  A literal   *)
(* is drawn with the number its text denotes.                              *)
(***************************************************************************)
Lit(text, value) == [text |-> text, value |-> value]

\* Sign, digits, an optional fraction, and a unit marker after a fraction.
Literals ==
    { Lit(<<"1", "2">>, Fin(FALSE, 12, 1)), Lit(<<"1">>, Fin(FALSE, 1, 1)),
      Lit(<<"-", "3">>, Fin(TRUE, 3, 1)), Lit(<<"0", ".", "5">>, Fin(FALSE, 1, 2)),
      Lit(<<"-", "0", ".", "2", "5">>, Fin(TRUE, 1, 4)), Lit(<<"0", ".", "2", "f">>, Fin(FALSE, 1, 5)),
      Lit(<<"-", "1", ".", "5", "f">>, Fin(TRUE, 3, 2)), Lit(<<"0">>, Fin(FALSE, 0, 1)) }

\* Digits directly followed by the unit marker.
IntegerUnitLiterals ==
    { Lit(<<"2", "f">>, Fin(FALSE, 2, 1)), Lit(<<"-", "2", "f">>, Fin(TRUE, 2, 1)) }

\* The second and third operand.
Operands ==
    { Lit(<<"2">>, Fin(FALSE, 2, 1)), Lit(<<"-", "3">>, Fin(TRUE, 3, 1)),
      Lit(<<"0", ".", "5", "f">>, Fin(FALSE, 1, 2)), Lit(<<"0">>, Fin(FALSE, 0, 1)) }

\* The scripts of SpecArith for the drawn literals d.
SubScript(d) == d.a.text \o <<" ", "-", " ">> \o d.b.text

SubSubScript(d) == d.a.text \o <<"-">> \o d.b.text \o <<"-">> \o d.c.text

AddMulScript(d) == d.a.text \o <<" ", "+", " ">> \o d.b.text \o <<" ", "*", " ">> \o d.c.text

MulAddScript(d) == d.a.text \o <<"*">> \o d.b.text \o <<"+">> \o d.c.text

DivDivScript(d) == d.a.text \o <<" ", "/", " ">> \o d.b.text \o <<" ", "/", " ">> \o d.c.text

BracketScript(d) == <<"(">> \o d.a.text \o <<")">>

TenTimesScript(d) == <<"1", "0", " ", "*", " ">> \o d.a.text

\* The scripts of the repository's tests order_of_operation_2,
\* order_of_operation, order_of_division and float_type_notation.
TestSubScript == <<"1", "8", " ", "-", " ", "2", " ", "*", " ", "-", "0", ".", "5">>

TestAddMulScript == <<"1", " ", "+", " ", "1", " ", "*", " ", "2">>

TestDivDivScript == <<"1", "2", " ", "/", " ", "2", " ", "/", " ", "2">>

TestUnitScript == <<"1", "0", " ", "*", " ", "0", ".", "2", "f">>

ArithScripts(d) ==
    { SubScript(d), SubSubScript(d), AddMulScript(d), MulAddScript(d), DivDivScript(d),
      BracketScript(d), TenTimesScript(d),
      TestSubScript, TestAddMulScript, TestDivDivScript, TestUnitScript }

\* One evaluation on a new session.
Evaluate(raw) == status = "new" /\ Call(raw)

InitArith ==
    /\ NewSession
    /\ drawn \in [a : Literals \cup IntegerUnitLiterals, b : Operands, c : Operands]

NextArith == \E raw \in ArithScripts(drawn) : Evaluate(raw)

SpecArith == InitArith /\ [][NextArith]_vars

\* The last call returned `value` for the script `raw`.
Evaluated(raw, value) == input = raw => (status = "returned" /\ result = value)

\* C2: binary subtraction is parsed and is left-associative: 'a-b' is a-b,
\* 'a-b-c' is (a-b)-c, and a '-' directly after an operator is a sign, so
\* '18 - 2 * -0.5' is 19.
C2_SubtractionLeftAssociative ==
    (status # "new" /\ drawn.a \in Literals) =>
        /\ Evaluated(SubScript(drawn), FSub(drawn.a.value, drawn.b.value))
        /\ Evaluated(SubSubScript(drawn),
                     FSub(FSub(drawn.a.value, drawn.b.value), drawn.c.value))
        /\ Evaluated(TestSubScript, Fin(FALSE, 19, 1))

\* C3: multiplication and division bind tighter than addition and division
\* is left-associative: 'a+b*c' is a+(b*c), 'a*b+c' is (a*b)+c, 'a/b/c' is
\* (a/b)/c; '1 + 1 * 2' is 3 and '12 / 2 / 2' is 3.
C3_PrecedenceAndDivision ==
    (status # "new" /\ drawn.a \in Literals) =>
        /\ Evaluated(AddMulScript(drawn),
                     FAdd(drawn.a.value, FMul(drawn.b.value, drawn.c.value)))
        /\ Evaluated(MulAddScript(drawn),
                     FAdd(FMul(drawn.a.value, drawn.b.value), drawn.c.value))
        /\ Evaluated(DivDivScript(drawn),
                     FDiv(FDiv(drawn.a.value, drawn.b.value), drawn.c.value))
        /\ Evaluated(TestAddMulScript, Fin(FALSE, 3, 1))
        /\ Evaluated(TestDivDivScript, Fin(FALSE, 3, 1))

\* C3 witness: '12 / 2 / 2' put together from drawn literals returned 3,
\* where a division split at the first '/' would return 12.
C3_Witness ==
    /\ drawn.a.text = <<"1", "2">>
    /\ drawn.b.text = <<"2">>
    /\ drawn.c.text = <<"2">>
    /\ input = DivDivScript(drawn)
    /\ status = "returned"
    /\ result = Fin(FALSE, 3, 1)

\* C9: every fragment -?digits(.digits)?f?, digits directly followed by f
\* included, is compiled to a Number whose value is the decimal number with
\* the f dropped; '10 * 0.2f' is 2.
C9_NumericLiteralCompiled ==
    /\ input = BracketScript(drawn) =>
          /\ status = "returned"
          /\ cache[input] = Number(drawn.a.value)
          /\ result = drawn.a.value
    /\ Evaluated(TenTimesScript(drawn), FMul(Fin(FALSE, 10, 1), drawn.a.value))
    /\ Evaluated(TestUnitScript, Fin(FALSE, 2, 1))

\* C9, with the unit marker where STRING_NUMBER_REGEX takes it: a fragment
\* -?digits(.digits f?)?, the f after a fractional part only, is compiled to
\* a Number whose value is the decimal number with the f dropped, and
\* '10 * 0.2f' is 2; digits directly followed by f are no numeric literal:
\* they compile to no Number and evaluate to zero as an unassigned name.
C9_FractionalUnitLiteral ==
    /\ drawn.a \in Literals => C9_NumericLiteralCompiled
    /\ (drawn.a \in IntegerUnitLiterals /\ input = BracketScript(drawn)) =>
          /\ status = "returned"
          /\ cache[input].type # "Number"
          /\ IsZeroValue(result)

\* C9 witness: '10 * 0.2f' put together from the drawn literal returned 2.
C9_Witness ==
    /\ drawn.a.text = <<"0", ".", "2", "f">>
    /\ input = TenTimesScript(drawn)
    /\ status = "returned"
    /\ cache[input].b = Number(Fin(FALSE, 1, 5))
    /\ result = Fin(FALSE, 2, 1)

\* The value a read of `key` finds in `map`.
ValueOf(map, key) == IF key \in DOMAIN map THEN map[key] ELSE Zero

(***************************************************************************)
(* SpecAlias: the host draws a namespace, an identifier and a literal and  *)
(* calls a session with scripts that write and read the variable through   *)
(* the short and the long spelling of the namespace.                       *)
(***************************************************************************)
\* The namespaces; an assignment is recognised for temp and variable only
\* (ALLOCATION_REGEX).
Namespaces ==
    { [short |-> <<"t">>, long |-> <<"t", "e", "m", "p">>, writable |-> TRUE],
      [short |-> <<"v">>, long |-> <<"v", "a", "r", "i", "a", "b", "l", "e">>, writable |-> TRUE],
      [short |-> <<"q">>, long |-> <<"q", "u", "e", "r", "y">>, writable |-> FALSE],
      [short |-> <<"c">>, long |-> <<"c", "o", "n", "t", "e", "x", "t">>, writable |-> FALSE] }

Identifiers == {<<"a">>, <<"x", "1">>, <<"m", "a", "x", "_", "h", "p">>}

AliasValues == {Lit(<<"6">>, Fin(FALSE, 6, 1)), Lit(<<"-", "0", ".", "5">>, Fin(TRUE, 1, 2))}

ShortName(d) == d.ns.short \o <<".">> \o d.x

LongName(d) == d.ns.long \o <<".">> \o d.x

WriteShort(d) == ShortName(d) \o <<" ", "=", " ">> \o d.a.text

WriteLong(d) == LongName(d) \o <<"=">> \o d.a.text

ReadShort(d) == ShortName(d)

ReadLong(d) == LongName(d)

ShortThenLong(d) == WriteShort(d) \o <<";", " ", "r", "e", "t", "u", "r", "n", " ">> \o LongName(d) \o <<";">>

LongThenShort(d) == WriteLong(d) \o <<";", " ", "r", "e", "t", "u", "r", "n", " ">> \o ShortName(d)

\* Reads through the long spelling, writes through the short one.
BumpScript(d) == ShortName(d) \o <<" ", "=", " ">> \o LongName(d) \o <<" ", "+", " ", "1">>

AliasScripts(d) ==
    { WriteShort(d), WriteLong(d), ReadShort(d), ReadLong(d),
      ShortThenLong(d), LongThenShort(d), BumpScript(d) }

InitAlias ==
    /\ NewSession
    /\ drawn \in [ns : Namespaces, x : Identifiers, a : AliasValues]

NextAlias == \E raw \in AliasScripts(drawn) : Call(raw)

SpecAlias == InitAlias /\ [][NextAlias]_vars

\* C5: the short and the long spelling of a namespace resolve to the same
\* variable key: a read through either spelling compiles to a reference of
\* the long key and returns the value stored there, a write through either
\* spelling of temp or variable stores at the long key, so that a value
\* written through one spelling is read through the other, within one
\* script and in a later call.
C5_AliasesShareKey ==
    [][ IsCall =>
          /\ input' \in {ReadShort(drawn), ReadLong(drawn)} =>
                /\ status' = "returned"
                /\ result' = ValueOf(variables, LongName(drawn))
                /\ path' = "miss" => cache'[input'] = Variable(LongName(drawn))
          /\ (drawn.ns.writable /\ input' \in {WriteShort(drawn), WriteLong(drawn)}) =>
                /\ status' = "returned"
                /\ DOMAIN variables' = DOMAIN variables \cup {LongName(drawn)}
                /\ variables'[LongName(drawn)] = drawn.a.value
          /\ (drawn.ns.writable /\ input' \in {ShortThenLong(drawn), LongThenShort(drawn)}) =>
                /\ status' = "returned"
                /\ result' = drawn.a.value
          /\ (drawn.ns.writable /\ input' = BumpScript(drawn)) =>
                /\ status' = "returned"
                /\ variables'[LongName(drawn)]
                      = FAdd(ValueOf(variables, LongName(drawn)), One)
          /\ ( /\ drawn.ns.writable
               /\ input \in {WriteShort(drawn), WriteLong(drawn)}
               /\ input' \in {ReadShort(drawn), ReadLong(drawn)} )
                => result' = drawn.a.value ]_vars

\* C5 witness: temp.a read through the long spelling, on a cache hit, after
\* the call before it wrote t.a through the short one.
C5_Witness ==
    /\ drawn.ns.short = <<"t">>
    /\ drawn.x = <<"a">>
    /\ input = ReadLong(drawn)
    /\ path = "hit"
    /\ result = drawn.a.value
    /\ DOMAIN cache = {ReadLong(drawn), WriteShort(drawn)}

(***************************************************************************)
(* SpecStatements: the host draws a sequence of statements and evaluates   *)
(* the script that separates them by ';' on a new session.                 *)
(***************************************************************************)
\* The statements of one script.
MaxStatements == 3

TempTest == <<"t", "e", "m", "p", ".", "t", "e", "s", "t">>

\* The statements of the repository's test return_value, a counter, a
\* block with a return of its own, and a statement whose parse panics.
StatementPool ==
    { <<"t", "e", "m", "p", ".", "t", "e", "s", "t", " ", "=", " ", "4">>, <<"r", "e", "t", "u", "r", "n", " ", "t", "e", "m", "p", ".", "t", "e", "s", "t">>, <<"r", "e", "t", "u", "r", "n", " ", "5">>,
      <<"t", "e", "m", "p", ".", "t", "e", "s", "t", " ", "=", " ", "t", "e", "m", "p", ".", "t", "e", "s", "t", " ", "+", " ", "1">>, <<"{", "t", ".", "y", " ", "=", " ", "2", ";", " ", "r", "e", "t", "u", "r", "n", " ", "3", "}">>, <<"a">> }

StatementSequences ==
    UNION {[1..n -> StatementPool] : n \in 1..MaxStatements}

RECURSIVE JoinStatements(_)
JoinStatements(stmts) ==
    IF Len(stmts) = 1 THEN stmts[1]
    ELSE JoinStatements(SubSeq(stmts, 1, Len(stmts) - 1)) \o <<";", " ">> \o stmts[Len(stmts)]

\* The script of the drawn statements, and the same with a last ';'.
StatementScript(d) == JoinStatements(d)

StatementScriptClosed(d) == JoinStatements(d) \o <<";">>

InitStatements == NewSession /\ drawn \in StatementSequences

NextStatements ==
    \/ Evaluate(StatementScript(drawn))
    \/ Evaluate(StatementScriptClosed(drawn))

SpecStatements == InitStatements /\ [][NextStatements]_vars

\* Every Scope of the tree holds at most one ReturnStatement, its last line.
RECURSIVE ReturnOnlyLast(_)
ReturnOnlyLast(e) ==
    CASE e.type \in {"Number", "Variable"} -> TRUE
      [] e.type \in {"Operation1", "ReturnStatement"} -> ReturnOnlyLast(e.a)
      [] e.type = "Operation2" -> ReturnOnlyLast(e.a) /\ ReturnOnlyLast(e.b)
      [] e.type = "Operation3" ->
           ReturnOnlyLast(e.a) /\ ReturnOnlyLast(e.b) /\ ReturnOnlyLast(e.c)
      [] e.type = "Allocation" -> ReturnOnlyLast(e.b)
      [] e.type = "Loop" -> ReturnOnlyLast(e.count) /\ ReturnOnlyLast(e.scope)
      [] e.type = "Scope" ->
           \A i \in 1..Len(e.lines) :
              /\ ReturnOnlyLast(e.lines[i])
              /\ e.lines[i].type = "ReturnStatement" => i = Len(e.lines)

\* The statements written at the top of the script that begin with return.
ReturnPositions(stmts) ==
    {i \in 1..Len(stmts) : StartsWith(stmts[i], <<"r", "e", "t", "u", "r", "n">>)}

\* The first n statements evaluated one after the other, each a script of
\* its own, from no variables; the value is that of the last one.
StatementRun(stmt, before) ==
    IF before.panic \/ IsPanic(create_expression_tree(stmt))
    THEN EvalPanic(before.vars)
    ELSE eval(create_expression_tree(stmt), before.vars)

RECURSIVE StatementsRun(_, _)
StatementsRun(stmts, n) ==
    IF n = 0 THEN Ret(Zero, EmptyMap)
    ELSE StatementRun(stmts[n], StatementsRun(stmts, n - 1))

FirstReturn(stmts) ==
    CHOOSE i \in ReturnPositions(stmts) : \A j \in ReturnPositions(stmts) : i <= j

\* C4: every Scope the parser builds has at most one ReturnStatement among
\* its lines and, if it has one, it is the last; statements after the first
\* top-level return are not evaluated, and the value of the script is the
\* value of that return: a script whose statements up to its first return
\* evaluate returns what they return and leaves the variables they leave.
C4_ReturnEndsScope ==
    /\ status = "returned" => ReturnOnlyLast(cache[input])
    /\ ( /\ status # "new"
         /\ ReturnPositions(drawn) # {}
         /\ ~StatementsRun(drawn, FirstReturn(drawn)).panic ) =>
              /\ status = "returned"
              /\ result = StatementsRun(drawn, FirstReturn(drawn)).val
              /\ variables = StatementsRun(drawn, FirstReturn(drawn)).vars

\* C4 witness: 'temp.test = 4; return temp.test; return 5;' returned 4 from
\* a Scope of two lines.
C4_Witness ==
    /\ input = <<"t", "e", "m", "p", ".", "t", "e", "s", "t", " ", "=", " ", "4", ";", " ", "r", "e", "t", "u", "r", "n", " ", "t", "e", "m", "p", ".", "t", "e", "s", "t", ";", " ", "r", "e", "t", "u", "r", "n", " ", "5", ";">>
    /\ status = "returned"
    /\ result = Fin(FALSE, 4, 1)
    /\ Len(cache[input].lines) = 2

(***************************************************************************)
(* SpecLoop: the host draws the text of a loop count and calls a session   *)
(* with loop scripts that hold it.                                         *)
(***************************************************************************)
\* A count with the number of iterations it stands for: its integer part,
\* or none when that is not positive.
Count(text, iterations) == [text |-> text, iterations |-> iterations]

LoopCounts ==
    { Count(<<"1", "0">>, 10), Count(<<"3">>, 3), Count(<<"1">>, 1), Count(<<"0">>, 0),
      Count(<<"-", "1">>, 0), Count(<<"2", ".", "9">>, 2), Count(<<"0", ".", "5">>, 0), Count(<<"-", "0", ".", "5">>, 0),
      Count(<<"-", "2", ".", "5">>, 0), Count(<<"1", ".", "5", "f">>, 1) }

VariableCount == <<"v", "a", "r", "i", "a", "b", "l", "e", ".", "c", "o", "u", "n", "t">>

TempEvals == <<"t", "e", "m", "p", ".", "e", "v", "a", "l", "s">>

\* The script of the repository's test loops, with the drawn count.
TestLoopScript(d) ==
    <<"v", ".", "c", "o", "u", "n", "t", " ", "=", " ", "0", ";", " ", "l", "o", "o", "p", "(">> \o d.text \o <<",", " ", "{", "v", ".", "c", "o", "u", "n", "t", " ", "=", " ", "v", ".", "c", "o", "u", "n", "t", " ", "+", " ", "1", "}", ")", ";", " ", "r", "e", "t", "u", "r", "n", " ", "v", ".", "c", "o", "u", "n", "t", ";">>

\* A loop whose body returns a value.
ValueLoopScript(d) ==
    <<"l", "o", "o", "p", "(">> \o d.text \o <<",", " ", "{", "v", ".", "c", "o", "u", "n", "t", " ", "=", " ", "v", ".", "c", "o", "u", "n", "t", " ", "+", " ", "1", ";", " ", "r", "e", "t", "u", "r", "n", " ", "v", ".", "c", "o", "u", "n", "t", " ", "*", " ", "1", "0", "}", ")">>

\* A loop whose count counts its own evaluations.
CountedLoopScript(d) ==
    <<"l", "o", "o", "p", "(", "{", "t", ".", "e", "v", "a", "l", "s", " ", "=", " ", "t", ".", "e", "v", "a", "l", "s", " ", "+", " ", "1", ";", " ", "r", "e", "t", "u", "r", "n", " ">> \o d.text
        \o <<"}", ",", " ", "{", "v", ".", "c", "o", "u", "n", "t", " ", "=", " ", "v", ".", "c", "o", "u", "n", "t", " ", "+", " ", "1", "}", ")">>

LoopScripts(d) == {TestLoopScript(d), ValueLoopScript(d), CountedLoopScript(d)}

InitLoop == NewSession /\ drawn \in LoopCounts

NextLoop == \E raw \in LoopScripts(drawn) : Call(raw)

SpecLoop == InitLoop /\ [][NextLoop]_vars

\* The integer n as a value.
IntValue(n) == Fin(FALSE, n, 1)

\* C10: a loop evaluates its count once, truncates it to an integer n and
\* evaluates its body max(n, 0) times against the shared variables; its
\* value is that of the last body evaluation, or 0.0, with the variables
\* untouched by the body, when n <= 0.
C10_LoopIterations ==
    [][ IsCall =>
          /\ status' = "returned"
          /\ input' = TestLoopScript(drawn) =>
                /\ result' = IntValue(drawn.iterations)
                /\ variables'[VariableCount] = IntValue(drawn.iterations)
          /\ input' = ValueLoopScript(drawn) =>
                IF drawn.iterations = 0
                THEN result' = Zero /\ variables' = variables
                ELSE /\ variables'[VariableCount]
                          = FAdd(ValueOf(variables, VariableCount),
                                 IntValue(drawn.iterations))
                     /\ result' = FMul(variables'[VariableCount], IntValue(10))
          /\ input' = CountedLoopScript(drawn) =>
                /\ result' = Zero
                /\ variables'[TempEvals] = FAdd(ValueOf(variables, TempEvals), One)
                /\ ValueOf(variables', VariableCount)
                      = FAdd(ValueOf(variables, VariableCount),
                             IntValue(drawn.iterations))
                /\ drawn.iterations = 0 =>
                      (VariableCount \in DOMAIN variables'
                          <=> VariableCount \in DOMAIN variables) ]_vars

\* C10 witness: the loop of the repository's test ran ten times.
C10_Witness ==
    /\ drawn.text = <<"1", "0">>
    /\ input = TestLoopScript(drawn)
    /\ status = "returned"
    /\ result = IntValue(10)

(***************************************************************************)
(* SpecTernary: the host draws a condition and two branches and evaluates  *)
(* the conditional put together from them, with and without the else       *)
(* branch, on a new session.                                               *)
(***************************************************************************)
\* A condition with whether it selects the then branch (it is not zero).
Cond(text, selects) == [text |-> text, selects |-> selects]

Conditions ==
    { Cond(<<"1">>, TRUE), Cond(<<"0">>, FALSE), Cond(<<"-", "2">>, TRUE),
      Cond(<<"t", ".", "c">>, FALSE), Cond(<<"!", "t", ".", "c">>, TRUE) }

\* Branches that assign, one that assigns and returns, one that assigns
\* nothing.
ThenBranches ==
    { <<"(", "t", ".", "a", " ", "=", " ", "1", ")">>, <<"{", "t", ".", "a", " ", "=", " ", "t", ".", "a", " ", "+", " ", "1", ";", " ", "r", "e", "t", "u", "r", "n", " ", "t", ".", "a", "}">>, <<"(", "v", ".", "n", " ", "=", " ", "3", ")">>, <<"5">> }

ElseBranches ==
    { <<"(", "t", ".", "b", " ", "=", " ", "2", ")">>, <<"{", "t", ".", "a", " ", "=", " ", "t", ".", "a", " ", "+", " ", "1", "0", ";", " ", "r", "e", "t", "u", "r", "n", " ", "t", ".", "a", "}">>, <<"(", "v", ".", "n", " ", "=", " ", "4", ")">>, <<"6">> }

TernaryScript(d) == d.cond.text \o <<" ", "?", " ">> \o d.then \o <<" ", ":", " ">> \o d.else

BinaryTernaryScript(d) == d.cond.text \o <<" ", "?", " ">> \o d.then

InitTernary ==
    /\ NewSession
    /\ drawn \in [cond : Conditions, then : ThenBranches, else : ElseBranches]

NextTernary ==
    \/ Evaluate(TernaryScript(drawn))
    \/ Evaluate(BinaryTernaryScript(drawn))

SpecTernary == InitTernary /\ [][NextTernary]_vars

\* The variables after the condition and then the text `branch`, each
\* evaluated as a script of its own, from no variables.
AfterBranch(d, branch) ==
    eval(create_expression_tree(branch),
         eval(create_expression_tree(d.cond.text), EmptyMap).vars).vars

\* The variables after the condition alone.
AfterCondition(d) == eval(create_expression_tree(d.cond.text), EmptyMap).vars

\* C11: a ternary evaluates only the branch that is selected: the variables
\* after 'cond ? then : else' are those the condition and the selected
\* branch leave, and after 'cond ? then' those the condition and, when it
\* holds, the then branch leave.
C11_OnlySelectedBranch ==
    status # "new" =>
        /\ status = "returned"
        /\ input = TernaryScript(drawn) =>
              variables = AfterBranch(drawn, IF drawn.cond.selects
                                             THEN drawn.then ELSE drawn.else)
        /\ input = BinaryTernaryScript(drawn) =>
              variables = IF drawn.cond.selects
                          THEN AfterBranch(drawn, drawn.then)
                          ELSE AfterCondition(drawn)

(***************************************************************************)
(* SpecCompare: the host draws two operands and a comparison operator and  *)
(* calls a session with the comparison, in both operand orders.            *)
(***************************************************************************)
\* Operands that assign when they are evaluated, and one that only reads.
CountingOperands ==
    { <<"(", "t", ".", "x", " ", "=", " ", "t", ".", "x", " ", "+", " ", "1", ")">>, <<"{", "t", ".", "x", " ", "=", " ", "t", ".", "x", " ", "+", " ", "1", ";", " ", "r", "e", "t", "u", "r", "n", " ", "t", ".", "x", "}">>,
      <<"{", "v", ".", "n", " ", "=", " ", "v", ".", "n", " ", "+", " ", "2", ";", " ", "r", "e", "t", "u", "r", "n", " ", "v", ".", "n", " ", "*", " ", "2", "}">>, <<"t", ".", "x">> }

PlainOperands == { <<"0">>, <<"1">>, <<"2">>, <<"4">>, <<"{", "t", ".", "y", " ", "=", " ", "t", ".", "y", " ", "+", " ", "1", ";", " ", "r", "e", "t", "u", "r", "n", " ", "t", ".", "y", "}">> }

\* The comparison operators with whether they hold of equal values.
CompareOperators ==
    { [text |-> <<"=", "=">>, equal |-> TRUE], [text |-> <<"!", "=">>, equal |-> FALSE] }

CompareScript(d) == d.a \o <<" ">> \o d.op.text \o <<" ">> \o d.b

SwappedCompareScript(d) == d.b \o d.op.text \o d.a

CompareScripts(d) == {CompareScript(d), SwappedCompareScript(d)}

InitCompare ==
    /\ NewSession
    /\ drawn \in [a : CountingOperands, b : PlainOperands, op : CompareOperators]

NextCompare == \E raw \in CompareScripts(drawn) : Call(raw)

SpecCompare == InitCompare /\ [][NextCompare]_vars

\* The text `left` and then the text `right`, each evaluated once as a
\* script of its own, from the variables before the step.
OperandsOnce(left, right) ==
    [l |-> eval(create_expression_tree(left), variables),
     r |-> eval(create_expression_tree(right),
                eval(create_expression_tree(left), variables).vars)]

\* The step left the variables of one evaluation of each operand and
\* returned the comparison of the two values of that evaluation.
ComparedOnce(once, equal) ==
    /\ status' = "returned"
    /\ variables' = once.r.vars
    /\ result' = Bool(FEq(once.l.val, once.r.val) = equal)

\* C12: 'a == b' and 'a != b' evaluate each operand once per evaluation of
\* the comparison: an assignment nested in an operand is executed once, and
\* the comparison uses the values of that one evaluation.
C12_OperandsEvaluatedOnce ==
    [][ IsCall =>
          /\ input' = CompareScript(drawn) =>
                ComparedOnce(OperandsOnce(drawn.a, drawn.b), drawn.op.equal)
          /\ input' = SwappedCompareScript(drawn) =>
                ComparedOnce(OperandsOnce(drawn.b, drawn.a), drawn.op.equal) ]_vars

====
